---- MODULE Spec2Model ----
(***************************************************************************)
(* Model of magenta/models/sketch_rnn/utils.py: the stroke-3 / stroke-5    *)
(* helpers and the DataLoader with its stroke-wise batching protocol.      *)
(*                                                                         *)
(* Numbers.  numpy floats are modelled in fixed point: the integer n       *)
(* stands for the float n / Unit.  The raw offsets are whole numbers, the  *)
(* limits are multiples of 1/2 and the scale factors are 1 or 2, so every  *)
(* minimum, maximum, subtraction and division of the model is exact.       *)
(* normalize is called where its quotients lie on the grid, and the random *)
(* scale factors drawn are 1.0 and 2.0.                                    *)
(*                                                                         *)
(* Indices.  Python arrays are 0-based, TLA+ sequences 1-based: the        *)
(* Python index t is position t + 1 of the sequence.  Index values that    *)
(* the program computes (np.where, the sampled idx) keep their 0-based     *)
(* Python value.                                                           *)
(***************************************************************************)
EXTENDS Integers, Sequences, FiniteSets, TLC

\* ------------------------------------------------------------------------
\* Bounds of the model
\* ------------------------------------------------------------------------
MaxSketches == 2     \* sketches in the corpus handed to the constructor
MaxRawPoints == 2    \* points of one sketch of the corpora preprocess is checked on
MaxPoints == 3       \* points of one sketch of the cohorts pad_stroke_batch is checked on
MaxCalls == 3        \* calls of random_stroke_batch in one behaviour
MaxAugPoints == 5    \* points of one sequence augment_strokes is checked on
MaxBigLen == 4       \* max_len, and points of one sequence, of the stroke-5 conversion
MaxSplitPoints == 6  \* points of one sketch split_sketch is checked on

\* the integer that stands for the float 1.0
Unit == 4

\* the two kinds of point of a raw sketch, (dx, dy, pen_lift): pen down and
\* pen lifted
PenDownPoint == << 3 * Unit, (0 - 1) * Unit, 0 >>

PenLiftPoint == << (0 - 1) * Unit, 2 * Unit, Unit >>

RawPoints == { PenDownPoint, PenLiftPoint }

\* a point whose pen column the clamp of preprocess has cut to 1/2
HalfLiftPoint == << Unit \div 2, (0 - Unit) \div 2, Unit \div 2 >>

SeqsUpTo(S, n) == UNION { [1..k -> S] : k \in 0..n }

\* the corpora preprocess is checked on: every sequence of at most
\* MaxSketches sketches of at most MaxRawPoints raw points
RawSketches == SeqsUpTo(RawPoints, MaxRawPoints)

RawCorpora == SeqsUpTo(RawSketches, MaxSketches)

\* the configurations preprocess is checked with
BatchSizes == {1, 2}
MaxSeqLengths == {1, 2}
ScaleFactors == {1, 2}
Limits == {Unit \div 2, 2 * Unit}

\* the sketches of the corpora the DataLoader is run on: one pen-stroke of
\* one point; two pen-strokes of two and one points; three pen-strokes; one
\* pen-stroke of three points
LoaderSketches ==
  { << PenLiftPoint >>,
    << PenDownPoint, PenLiftPoint, PenLiftPoint >>,
    << PenLiftPoint, PenLiftPoint, PenLiftPoint >>,
    << PenDownPoint, PenDownPoint, PenLiftPoint >> }

LoaderCorpora == SeqsUpTo(LoaderSketches, MaxSketches)

\* the configurations the DataLoader is run with
LoaderMaxSeqLengths == {2}
LoaderScaleFactors == {2}

\* the sketches of the cohorts pad_stroke_batch is checked on
CohortSketches == SeqsUpTo(RawPoints \cup {HalfLiftPoint}, MaxPoints)

\* ------------------------------------------------------------------------
\* numpy helpers
\* ------------------------------------------------------------------------
Min2(a, b) == IF a <= b THEN a ELSE b

Max2(a, b) == IF a >= b THEN a ELSE b

\* max() of a non-empty sequence of integers
MaxOf(s) == CHOOSE m \in { s[n] : n \in 1..Len(s) } : \A n \in 1..Len(s) : s[n] <= m

\* np.where(data[:, 2] == 1)[0]: the 0-based row indices whose third column
\* equals 1.0, ascending
np_where_lift(data) ==
  LET F[n \in 0..Len(data)] ==
        IF n = 0 THEN <<>>
        ELSE IF data[n][3] = Unit THEN Append(F[n - 1], n - 1) ELSE F[n - 1]
  IN F[Len(data)]

\* np.split(data, indices): the Len(indices) + 1 consecutive pieces
\* data[0:i1], data[i1:i2], ..., data[ik:]
np_split(data, indices) ==
  LET K == Len(indices)
      from(p) == IF p = 1 THEN 0 ELSE indices[p - 1]
      to(p) == IF p = K + 1 THEN Len(data) ELSE indices[p]
  IN [p \in 1..(K + 1) |-> SubSeq(data, from(p) + 1, to(p))]

\* s[:-1]
DropLast(s) == IF Len(s) = 0 THEN s ELSE SubSeq(s, 1, Len(s) - 1)

\* ------------------------------------------------------------------------
\* Sketch segmentation
\* ------------------------------------------------------------------------
split_sketch(data) ==
  LET pen_stroke_bounds == [n \in 1..Len(np_where_lift(data)) |-> np_where_lift(data)[n] + 1]
  IN np_split(data, DropLast(pen_stroke_bounds))

get_max_stroke_len(sketch) ==
  MaxOf([p \in 1..Len(split_sketch(sketch)) |-> Len(split_sketch(sketch)[p])])

\* ------------------------------------------------------------------------
\* DataLoader state
\* ------------------------------------------------------------------------
VARIABLES
  strokes,            \* self.strokes: the stored corpus
  stroke_batch_queue, \* self.stroke_batch_queue, head first; entries [item, tag]
  batch_size,         \* self.batch_size
  max_seq_length,     \* self.max_seq_length
  scale_factor,       \* self.scale_factor
  limit,              \* self.limit (fixed point)
  num_batches,        \* self.num_batches
  sketches,           \* the corpus the constructor is called with
  random_scale_factor, \* self.random_scale_factor (fixed point)
  augment_stroke_prob, \* self.augment_stroke_prob (fixed point)
  lastCall,           \* the method called last, "new" before any call
  outcome,            \* "ok" or the exception that ended the last call
  ret,                \* the value the last call returned
  executed,           \* the helpers the last call ran
  cohort,             \* the sketches the last call handed to split_sketch
  built,              \* the run the last call got from pad_stroke_batch
  run,                \* the run enqueued by the last refill
  log,                \* the tags of the mini-batches random_stroke_batch returned
  runs,               \* refills so far
  calls,              \* calls of random_stroke_batch so far
  sampled,            \* the indices the last call selected its cohort with
  ret_alias,          \* the 1-based stored sketch whose memory ret shares, 0 for none
  arg,                \* the arguments the last call was given
  res                 \* what that function returned

vars == << strokes, stroke_batch_queue, batch_size, max_seq_length, scale_factor,
           limit, num_batches, sketches, lastCall, outcome, ret, executed,
           cohort, built, run, log, runs, calls, random_scale_factor,
           augment_stroke_prob, sampled, ret_alias, arg, res >>

config == << batch_size, max_seq_length, scale_factor, limit, num_batches, sketches,
             random_scale_factor, augment_stroke_prob >>

standalone == << arg, res >>

history == << run, log, runs, calls >>

\* ------------------------------------------------------------------------
\* DataLoader.preprocess
\* ------------------------------------------------------------------------
\* np.minimum(sketch, limit) then np.maximum(sketch, -limit): every column
\* of every row, the pen column included
clamp(sketch, lim) ==
  [n \in 1..Len(sketch) |->
     [c \in 1..3 |-> Max2(Min2(sketch[n][c], lim), 0 - lim)]]

\* sketch[:, 0:2] /= scale_factor
scale(sketch, sf) ==
  [n \in 1..Len(sketch) |-> << sketch[n][1] \div sf, sketch[n][2] \div sf, sketch[n][3] >>]

\* the filter of preprocess
retained(sketch, msl) == get_max_stroke_len(sketch) <= msl

\* raw_data: the retained sketches, clamped and scaled, in input order
raw_data(corpus, msl, lim, sf) ==
  LET F[n \in 0..Len(corpus)] ==
        IF n = 0 THEN <<>>
        ELSE IF retained(corpus[n], msl)
             THEN Append(F[n - 1], scale(clamp(corpus[n], lim), sf))
             ELSE F[n - 1]
  IN F[Len(corpus)]

\* no sorting: the index order of the input
argsort_none(seq_len) == { [i \in 1..Len(seq_len) |-> i] }

\* np.argsort(seq_len) with the default kind ("quicksort", not stable): any
\* index order that sorts seq_len ascending (1-based here)
argsort(seq_len) ==
  { idx \in [1..Len(seq_len) -> 1..Len(seq_len)] :
      /\ \A a, b \in 1..Len(seq_len) : a # b => idx[a] # idx[b]
      /\ \A a \in 1..(Len(seq_len) - 1) : seq_len[idx[a]] <= seq_len[idx[a + 1]] }

seq_len_of(data) == [n \in 1..Len(data) |-> Len(data[n])]

\* self.strokes after preprocess, for one outcome idx of the argsort
preprocess(corpus, msl, lim, sf, idx) ==
  LET kept == raw_data(corpus, msl, lim, sf)
  IN [i \in 1..Len(kept) |-> kept[idx[i]]]

\* ------------------------------------------------------------------------
\* DataLoader.__init__
\* ------------------------------------------------------------------------
\* the state before the constructor runs: its arguments are chosen, nothing
\* is stored
InitPre ==
  /\ batch_size \in BatchSizes
  /\ max_seq_length \in MaxSeqLengths
  /\ scale_factor \in ScaleFactors
  /\ limit \in Limits
  /\ sketches \in RawCorpora
  /\ strokes = <<>>
  /\ num_batches = 0
  /\ stroke_batch_queue = <<>>
  /\ lastCall = "new"
  /\ outcome = "ok"
  /\ ret = <<>>
  /\ executed = {}
  /\ cohort = <<>>
  /\ built = <<>>
  /\ run = <<>>
  /\ log = <<>>
  /\ runs = 0
  /\ calls = 0
  /\ random_scale_factor = 0
  /\ augment_stroke_prob = 0
  /\ sampled = <<>>
  /\ ret_alias = 0
  /\ arg = <<>>
  /\ res = <<>>

\* __init__: the queue is created empty and preprocess stores the corpus
construct ==
  /\ lastCall = "new"
  /\ \E idx \in argsort(seq_len_of(raw_data(sketches, max_seq_length, limit, scale_factor))) :
       strokes' = preprocess(sketches, max_seq_length, limit, scale_factor, idx)
  /\ num_batches' = Len(raw_data(sketches, max_seq_length, limit, scale_factor)) \div batch_size
  /\ stroke_batch_queue' = <<>>
  /\ lastCall' = "__init__"
  /\ executed' = {"preprocess"}
  /\ UNCHANGED << batch_size, max_seq_length, scale_factor, limit, sketches,
                  random_scale_factor, augment_stroke_prob,
                  outcome, ret, cohort, built, history, sampled, ret_alias,
                  standalone >>

NextPre == construct

SpecPre == InitPre /\ [][NextPre]_vars

\* the DataLoader after construction
Init ==
  \E bs \in BatchSizes, msl \in LoaderMaxSeqLengths, sf \in LoaderScaleFactors,
     lim \in Limits, corpus \in LoaderCorpora :
    \E idx \in argsort(seq_len_of(raw_data(corpus, msl, lim, sf))) :
      /\ stroke_batch_queue = <<>>
      /\ batch_size = bs
      /\ max_seq_length = msl
      /\ scale_factor = sf
      /\ limit = lim
      /\ sketches = corpus
      /\ strokes = preprocess(corpus, msl, lim, sf, idx)
      /\ num_batches = Len(raw_data(corpus, msl, lim, sf)) \div bs
      /\ lastCall = "__init__"
      /\ outcome = "ok"
      /\ ret = <<>>
      /\ executed = {"preprocess"}
      /\ cohort = <<>>
      /\ built = <<>>
      /\ run = <<>>
      /\ log = <<>>
      /\ runs = 0
      /\ calls = 0
      /\ random_scale_factor = 0
      /\ augment_stroke_prob = 0
      /\ sampled = <<>>
      /\ ret_alias = 0
      /\ arg = <<>>
      /\ res = <<>>

\* ------------------------------------------------------------------------
\* DataLoader.random_scale, DataLoader._get_sketches_from_indices
\* ------------------------------------------------------------------------
\* the values np.random.random() and np.random.rand() are drawn from
UniformDraws == { Unit \div 2, (3 * Unit) \div 4 }

\* random_scale for the draws ux, uy of np.random.random() (fixed point):
\* a copy of data with the columns 0 and 1 multiplied by
\* (u - 0.5) * 2 * random_scale_factor + 1.0
random_scale(data, ux, uy) ==
  LET x_scale_factor == ((ux - Unit \div 2) * 2 * random_scale_factor) \div Unit + Unit
      y_scale_factor == ((uy - Unit \div 2) * 2 * random_scale_factor) \div Unit + Unit
  IN [n \in 1..Len(data) |->
        << (data[n][1] * x_scale_factor) \div Unit,
           (data[n][2] * y_scale_factor) \div Unit,
           data[n][3] >>]

\* ------------------------------------------------------------------------
\* augment_strokes
\* ------------------------------------------------------------------------
\* candidate = [strokes[i][0], strokes[i][1], strokes[i][2]]: a new list
\* that shares memory with no row of the input (row 0)
candidate_of(strokes_in, i) ==
  [val |-> << strokes_in[i][1], strokes_in[i][2], strokes_in[i][3] >>, row |-> 0]

\* a merge test that lets the second point of a pen-stroke be merged
may_merge_early(candidate, prev_stroke, count, urnd, prob) ==
  candidate[3] = 0 /\ prev_stroke[3] = 0 /\ count > 0 /\ urnd < prob

\* candidate[2] == 0 and prev_stroke[2] == 0 and count > 2 and urnd < prob
may_merge(candidate, prev_stroke, count, urnd, prob) ==
  candidate[3] = 0 /\ prev_stroke[3] = 0 /\ count > 2 /\ urnd < prob

\* a merge that drops the offsets of the candidate
merge_dropped(stroke, candidate) == stroke

\* stroke[0] += candidate[0]; stroke[1] += candidate[1]
merge(stroke, candidate) ==
  << stroke[1] + candidate[1], stroke[2] + candidate[2], stroke[3] >>

\* what augment_strokes holds before the first point.  Next to result,
\* prev_stroke and count: data, the input array as it is in memory; row, the
\* input row the list named stroke shares memory with; into, for every point
\* visited the 1-based position of the output point that holds it; emitted,
\* the positions of the points appended
augment_start(strokes_in) ==
  [result |-> <<>>, prev_stroke |-> << 0, 0, Unit >>, count |-> 0,
   data |-> strokes_in, row |-> 0, into |-> <<>>, emitted |-> <<>>]

\* one pass of the loop body, for point i (1-based) and the draw urnd
augment_step(st, i, urnd, prob) ==
  LET candidate == candidate_of(st.data, i)
      count == IF candidate.val[3] = Unit \/ st.prev_stroke[3] = Unit
               THEN 0 ELSE st.count + 1
      last == Len(st.result)
  IN IF may_merge(candidate.val, st.prev_stroke, count, urnd, prob)
     THEN [result |-> [st.result EXCEPT ![last] = merge(@, candidate.val)],
           prev_stroke |-> merge(st.prev_stroke, candidate.val),
           count |-> count,
           data |-> IF st.row = 0 THEN st.data
                    ELSE [st.data EXCEPT ![st.row] = merge(@, candidate.val)],
           row |-> st.row,
           into |-> Append(st.into, last),
           emitted |-> st.emitted]
     ELSE [result |-> Append(st.result, candidate.val),
           prev_stroke |-> candidate.val,
           count |-> count,
           data |-> st.data,
           row |-> candidate.row,
           into |-> Append(st.into, last + 1),
           emitted |-> Append(st.emitted, i)]

\* the loop of augment_strokes for the draws urnd, one per point
augment_loop(strokes_in, prob, urnd) ==
  LET F[i \in 0..Len(strokes_in)] ==
        IF i = 0 THEN augment_start(strokes_in)
        ELSE augment_step(F[i - 1], i, urnd[i], prob)
  IN F[Len(strokes_in)]

\* np.array(result), for every outcome of the draws: the arrays
\* augment_strokes(strokes, prob) can return
augment_strokes(strokes_in, prob) ==
  LET S[i \in 0..Len(strokes_in)] ==
        IF i = 0 THEN { augment_start(strokes_in) }
        ELSE { augment_step(st, i, urnd, prob) : st \in S[i - 1], urnd \in UniformDraws }
  IN { st.result : st \in S[Len(strokes_in)] }

\* the DataLoader variables of a behaviour in which a module function is
\* called on its own
no_loader ==
  /\ strokes = <<>>
  /\ stroke_batch_queue = <<>>
  /\ batch_size = 1
  /\ max_seq_length = 1
  /\ scale_factor = 1
  /\ limit = 2 * Unit
  /\ num_batches = 0
  /\ sketches = <<>>
  /\ random_scale_factor = 0
  /\ augment_stroke_prob = 0
  /\ outcome = "ok"
  /\ ret = <<>>
  /\ executed = {}
  /\ cohort = <<>>
  /\ built = <<>>
  /\ run = <<>>
  /\ log = <<>>
  /\ runs = 0
  /\ calls = 0
  /\ sampled = <<>>
  /\ ret_alias = 0

loader == << strokes, stroke_batch_queue, config, outcome, ret, executed, cohort,
            built, history, sampled, ret_alias >>

\* the stroke-3 sequences augment_strokes is called with: pen_lift 0 or 1
AugInputs == SeqsUpTo({ PenDownPoint, PenLiftPoint }, MaxAugPoints)

\* the values of prob: never merge, merge on the smaller draw, always merge
AugProbs == { 0, (3 * Unit) \div 4, Unit }

\* the arguments strokes and prob are chosen, and the outcome of the draws
InitAugment ==
  /\ no_loader
  /\ lastCall = "new"
  /\ \E strokes_in \in AugInputs, prob \in AugProbs :
       \E urnd \in [1..Len(strokes_in) -> UniformDraws] :
         arg = << strokes_in, prob, urnd >>
  /\ res = <<>>

\* augment_strokes(strokes, prob): res holds the array returned, the input
\* array as it is in memory afterwards and the bookkeeping of the loop
call_augment_strokes ==
  /\ lastCall = "new"
  /\ lastCall' = "augment_strokes"
  /\ res' = augment_loop(arg[1], arg[2], arg[3])
  /\ UNCHANGED << loader, arg >>

NextAugment == call_augment_strokes

SpecAugment == InitAugment /\ [][NextAugment]_vars

\* ------------------------------------------------------------------------
\* split_sketch on its own
\* ------------------------------------------------------------------------
\* a sketch in stroke-3 format, pen_lift 0 or 1, is chosen
InitSplit ==
  /\ no_loader
  /\ lastCall = "new"
  /\ \E data \in SeqsUpTo({ PenDownPoint, PenLiftPoint }, MaxSplitPoints) : arg = << data >>
  /\ res = <<>>

\* pen_strokes = split_sketch(data)
call_split_sketch ==
  /\ lastCall = "new"
  /\ lastCall' = "split_sketch"
  /\ res' = split_sketch(arg[1])
  /\ UNCHANGED << loader, arg >>

NextSplit == call_split_sketch

SpecSplit == InitSplit /\ [][NextSplit]_vars

\* ------------------------------------------------------------------------
\* to_big_strokes, to_normal_strokes
\* ------------------------------------------------------------------------
\* to_big_strokes(stroke, max_len) for len(stroke) <= max_len: max_len rows
\* of zeros; the first l rows get the offsets, p_up = pen column and
\* p_down = 1 - p_up; the rows from l on get p_end = 1
to_big_strokes(stroke, max_len) ==
  [t \in 1..max_len |->
     IF t <= Len(stroke)
     THEN << stroke[t][1], stroke[t][2], Unit - stroke[t][3], stroke[t][3], 0 >>
     ELSE << 0, 0, 0, 0, Unit >>]

\* the value of l after the loop of to_normal_strokes: the 0-based index of
\* the first row with big_stroke[i, 4] > 0, and 0 when there is none
first_end_index(big_stroke) ==
  LET flagged == { i \in 0..(Len(big_stroke) - 1) : big_stroke[i + 1][5] > 0 }
  IN IF flagged = {} THEN 0
     ELSE CHOOSE i \in flagged : \A k \in flagged : i <= k

\* to_normal_strokes(big_stroke): l == 0 after the loop is taken for "no
\* row is flagged" and replaced by the full length
to_normal_strokes(big_stroke) ==
  LET l0 == first_end_index(big_stroke)
      l == IF l0 = 0 THEN Len(big_stroke) ELSE l0
  IN [n \in 1..l |-> << big_stroke[n][1], big_stroke[n][2], big_stroke[n][4] >>]

\* a stroke-3 sequence with pen_lift 0 or 1 and max_len >= 1 are chosen
InitBig ==
  /\ no_loader
  /\ lastCall = "new"
  /\ \E stroke \in SeqsUpTo({ PenDownPoint, PenLiftPoint }, MaxBigLen), max_len \in 1..MaxBigLen :
       arg = << stroke, max_len >>
  /\ res = <<>>

\* big = to_big_strokes(stroke, max_len); the assert stops a stroke longer
\* than max_len
call_to_big_strokes ==
  /\ lastCall = "new"
  /\ lastCall' = "to_big_strokes"
  /\ IF Len(arg[1]) <= arg[2]
     THEN outcome' = "ok" /\ res' = to_big_strokes(arg[1], arg[2])
     ELSE outcome' = "AssertionError" /\ res' = <<>>
  /\ UNCHANGED << strokes, stroke_batch_queue, config, ret, executed, cohort,
                  built, history, sampled, ret_alias, arg >>

\* to_normal_strokes(big)
call_to_normal_strokes ==
  /\ lastCall = "to_big_strokes"
  /\ outcome = "ok"
  /\ lastCall' = "to_normal_strokes"
  /\ res' = to_normal_strokes(res)
  /\ UNCHANGED << loader, arg >>

NextBig == call_to_big_strokes \/ call_to_normal_strokes

SpecBig == InitBig /\ [][NextBig]_vars

\* ------------------------------------------------------------------------
\* DataLoader._get_sketches_from_indices
\* ------------------------------------------------------------------------
\* the draws random_scale can tell apart: with random_scale_factor 0 every
\* draw gives the factor 1.0
scale_draws == IF random_scale_factor = 0 THEN { Unit \div 2 } ELSE UniformDraws

\* the body of the loop for the 0-based index i, for every outcome of the
\* draws: data = random_scale(self.strokes[i]), a copy of it, augmented when
\* augment_stroke_prob > 0
sketch_for_batch(i) ==
  UNION { LET data == random_scale(strokes[i + 1], ux, uy)
              data_copy == data
          IN IF augment_stroke_prob > 0
             THEN augment_strokes(data_copy, augment_stroke_prob)
             ELSE { data_copy } : ux \in scale_draws, uy \in scale_draws }

\* _get_sketches_from_indices for 0-based indices that are all in range:
\* the lists of sketches it can return, one per outcome of the draws; the
\* second result, num_strokes, is used by no caller
get_sketches_from_indices(indices) ==
  LET outcomes == [n \in 1..Len(indices) |-> sketch_for_batch(indices[n])]
  IN { sks \in [1..Len(indices) -> UNION { outcomes[n] : n \in 1..Len(indices) }] :
         \A n \in 1..Len(indices) : sks[n] \in outcomes[n] }

\* np.sum(data_copy[:, 2]) raises IndexError on the one-dimensional array
\* np.array([]) that augment_strokes returns for a sketch without points
augmented_empty(indices) ==
  /\ augment_stroke_prob > 0
  /\ \E n \in 1..Len(indices) : strokes[indices[n] + 1] = <<>>

\* self.strokes[i] raises IndexError for an index past the end
indices_in_range(indices) ==
  \A n \in 1..Len(indices) : indices[n] < Len(strokes)

\* ------------------------------------------------------------------------
\* DataLoader.pad_stroke_batch
\* ------------------------------------------------------------------------
\* self.start_stroke_token
start_stroke_token == << 0, 0, Unit, 0, 0 >>

\* result[i, :, 4] = 1 on a row of zeros
end_of_sketch_point == << 0, 0, 0, 0, Unit >>

\* result[i, l:, 3] = 1 on a row of zeros
end_of_stroke_point == << 0, 0, 0, Unit, 0 >>

\* a point whose pen-down channel is set whatever the pen column says
stroke5_point_pen_down(pt) == << pt[1], pt[2], Unit, pt[3], 0 >>

\* one stroke-3 point written into a row of zeros: offsets, p_up = pen
\* column, p_down = 1 - p_up
stroke5_point(pt) == << pt[1], pt[2], Unit - pt[3], pt[3], 0 >>

\* the two padding flags exchanged
padding_point_swapped(is_last_stroke) ==
  IF is_last_stroke THEN end_of_stroke_point ELSE end_of_sketch_point

\* the padding of a row that carries a stroke
padding_point(is_last_stroke) ==
  IF is_last_stroke THEN end_of_sketch_point ELSE end_of_stroke_point

\* S_0 written over position 0 of a row that was not shifted
overwrite_with_start_token(row) ==
  [t \in 1..Len(row) |-> IF t = 1 THEN start_stroke_token ELSE row[t]]

\* result[i, 1:, :] = result[i, :-1, :], then position 0 set to S_0
prepend_start_token(row) ==
  [t \in 1..Len(row) |-> IF t = 1 THEN start_stroke_token ELSE row[t - 1]]

\* the policy "s_0 for the first stroke only": all_strokes_policy False
pad_row_first_stroke_only(pen_strokes, j, msl) ==
  IF Len(pen_strokes) <= j
  THEN [row |-> [t \in 1..(msl + 1) |-> end_of_sketch_point], len |-> 0]
  ELSE LET stroke == pen_strokes[j + 1]
           l == Len(stroke)
           is_last_stroke == Len(pen_strokes) <= j + 1
           filled == [t \in 1..(msl + 1) |->
                        IF t <= l THEN stroke5_point(stroke[t])
                        ELSE padding_point(is_last_stroke)]
       IN IF j = 0
          THEN [row |-> prepend_start_token(filled), len |-> l + 1]
          ELSE [row |-> filled, len |-> l]

\* row i of mini-batch j (j 0-based) and its entry of seq_len, for the
\* pen-strokes pen_strokes of sketch i
pad_row(pen_strokes, j, msl) ==
  IF Len(pen_strokes) <= j
  THEN [row |-> [t \in 1..(msl + 1) |-> end_of_sketch_point], len |-> 0]
  ELSE LET stroke == pen_strokes[j + 1]
           l == Len(stroke)
           is_last_stroke == Len(pen_strokes) <= j + 1
           filled == [t \in 1..(msl + 1) |->
                        IF t <= l THEN stroke5_point(stroke[t])
                        ELSE padding_point(is_last_stroke)]
       IN [row |-> prepend_start_token(filled), len |-> l + 1]

\* the number of strokes of the first sketch taken for the maximum
first_num_strokes(sketch_strokes) == Len(sketch_strokes[1])

\* max([len(sketch) for sketch in sketch_strokes]) of a non-empty cohort
max_num_strokes(sketch_strokes) ==
  MaxOf([n \in 1..Len(sketch_strokes) |-> Len(sketch_strokes[n])])

\* the construction of a cell without the assert on the stroke length
pad_cell_error_unchecked(sketch_strokes, j, i, msl) ==
  IF i > Len(sketch_strokes) THEN "IndexError" ELSE "ok"

\* what stops the construction of cell (j, i), i 1-based
pad_cell_error(sketch_strokes, j, i, msl) ==
  IF i > Len(sketch_strokes) THEN "IndexError"
  ELSE IF Len(sketch_strokes[i]) > j /\ Len(sketch_strokes[i][j + 1]) > msl
       THEN "AssertionError"
       ELSE "ok"

\* the exception pad_stroke_batch ends with, "ok" when it returns: the loops
\* visit the cells in the order j ascending, then i ascending
pad_stroke_batch_error(sketch_strokes, bs, msl) ==
  IF Len(sketch_strokes) = 0 THEN "ValueError"
  ELSE LET cells == (0..(max_num_strokes(sketch_strokes) - 1)) \X (1..bs)
           bad == { c \in cells : pad_cell_error(sketch_strokes, c[1], c[2], msl) # "ok" }
           first == CHOOSE c \in bad :
                      \A d \in bad : c[1] < d[1] \/ (c[1] = d[1] /\ c[2] <= d[2])
       IN IF bad = {} THEN "ok"
          ELSE pad_cell_error(sketch_strokes, first[1], first[2], msl)

\* the batches pad_stroke_batch returns: (None, result, seq_len) for
\* j = 0 .. max_num_strokes - 1
pad_stroke_batch(sketch_strokes, bs, msl) ==
  [jj \in 1..max_num_strokes(sketch_strokes) |->
     LET rows == [i \in 1..bs |-> pad_row(sketch_strokes[i], jj - 1, msl)]
     IN [x |-> "None",
         result |-> [i \in 1..bs |-> rows[i].row],
         seq_len |-> [i \in 1..bs |-> rows[i].len]]]

\* [split_sketch(sketch) for sketch in sketches]
split_all(sks) == [n \in 1..Len(sks) |-> split_sketch(sks[n])]

\* ------------------------------------------------------------------------
\* pad_stroke_batch on its own: split a cohort and build its run
\* ------------------------------------------------------------------------
\* a cohort of batch_size sketches is chosen, nothing is built
InitPad ==
  /\ batch_size \in BatchSizes
  /\ max_seq_length \in MaxSeqLengths
  /\ cohort \in [1..batch_size -> CohortSketches]
  /\ scale_factor = 1
  /\ limit = 2 * Unit
  /\ sketches = <<>>
  /\ strokes = <<>>
  /\ num_batches = 0
  /\ stroke_batch_queue = <<>>
  /\ lastCall = "new"
  /\ outcome = "ok"
  /\ ret = <<>>
  /\ executed = {}
  /\ built = <<>>
  /\ run = <<>>
  /\ log = <<>>
  /\ runs = 0
  /\ calls = 0
  /\ random_scale_factor = 0
  /\ augment_stroke_prob = 0
  /\ sampled = <<>>
  /\ ret_alias = 0
  /\ arg = <<>>
  /\ res = <<>>

\* sketch_strokes = [split_sketch(sketch) for sketch in sketches], then
\* self.pad_stroke_batch(sketch_strokes)
build_run ==
  /\ lastCall = "new"
  /\ lastCall' = "pad_stroke_batch"
  /\ executed' = {"split_sketch", "pad_stroke_batch"}
  /\ LET sketch_strokes == split_all(cohort)
         err == pad_stroke_batch_error(sketch_strokes, batch_size, max_seq_length)
         batches == pad_stroke_batch(sketch_strokes, batch_size, max_seq_length)
     IN /\ outcome' = err
        /\ IF err = "ok"
           THEN built' = batches /\ ret' = batches
           ELSE UNCHANGED << built, ret >>
  /\ UNCHANGED << strokes, stroke_batch_queue, config, cohort, history,
                  sampled, ret_alias, standalone >>

NextPad == build_run

SpecPad == InitPad /\ [][NextPad]_vars

\* ------------------------------------------------------------------------
\* DataLoader.random_stroke_batch
\* ------------------------------------------------------------------------
\* bs positions drawn one by one from all n, with replacement
choice_with_replacement(n, bs) == [1..bs -> 0..(n - 1)]

\* np.random.permutation(range(0, n))[0:bs]: the first bs entries of a
\* permutation of 0 .. n-1
permutation_prefix(n, bs) ==
  { idx \in [1..Min2(n, bs) -> 0..(n - 1)] :
      \A a, b \in 1..Min2(n, bs) : a # b => idx[a] # idx[b] }

\* a refill that does not wait for the queue to run empty
queue_nearly_empty(q) == Len(q) <= 1

\* self.stroke_batch_queue.empty(), the test that decides the refill
queue_empty(q) == q = <<>>

\* for batch in batches: self.stroke_batch_queue.put(batch): each batch goes
\* to the tail, in the order of the list.  A queued entry carries, next to
\* the batch, the tag (refill number, index in the run, length of the run).
queue_put_all(q, batches, r) ==
  q \o [jj \in 1..Len(batches) |->
          [item |-> batches[jj], tag |-> << r, jj - 1, Len(batches) >>]]

\* a queue that hands out its newest entry
queue_get_newest(q) == [got |-> q[Len(q)], rest |-> SubSeq(q, 1, Len(q) - 1)]

\* self.stroke_batch_queue.get(): the entry at the head leaves the queue
queue_get(q) == [got |-> Head(q), rest |-> Tail(q)]

random_stroke_batch ==
  /\ calls < MaxCalls
  /\ lastCall' = "random_stroke_batch"
  /\ calls' = calls + 1
  /\ ret_alias' = 0
  /\ arg' = <<>>
  /\ UNCHANGED << strokes, config, res >>
  /\ IF queue_empty(stroke_batch_queue)
     THEN \E idx \in permutation_prefix(Len(strokes), batch_size) :
          \E sks \in get_sketches_from_indices(idx) :
            LET sketch_strokes == split_all(sks)
                err == IF augmented_empty(idx) THEN "IndexError"
                       ELSE pad_stroke_batch_error(sketch_strokes, batch_size, max_seq_length)
                batches == pad_stroke_batch(sketch_strokes, batch_size, max_seq_length)
                filled == queue_put_all(stroke_batch_queue, batches, runs + 1)
            IN /\ executed' = {"_get_sketches_from_indices", "split_sketch", "pad_stroke_batch"}
               /\ sampled' = idx
               /\ cohort' = sks
               /\ IF err # "ok"
                  THEN /\ outcome' = err
                       /\ ret' = <<>>
                       /\ built' = <<>>
                       /\ UNCHANGED << stroke_batch_queue, run, log, runs >>
                  ELSE /\ built' = batches
                       /\ run' = batches
                       /\ runs' = runs + 1
                       /\ IF queue_empty(filled)
                          THEN /\ outcome' = "AssertionError"
                               /\ ret' = <<>>
                               /\ stroke_batch_queue' = filled
                               /\ UNCHANGED log
                          ELSE /\ outcome' = "ok"
                               /\ ret' = queue_get(filled).got.item
                               /\ stroke_batch_queue' = queue_get(filled).rest
                               /\ log' = Append(log, queue_get(filled).got.tag)
     ELSE /\ executed' = {}
          /\ outcome' = "ok"
          /\ ret' = queue_get(stroke_batch_queue).got.item
          /\ stroke_batch_queue' = queue_get(stroke_batch_queue).rest
          /\ log' = Append(log, queue_get(stroke_batch_queue).got.tag)
          /\ sampled' = <<>>
          /\ cohort' = <<>>
          /\ built' = <<>>
          /\ UNCHANGED << run, runs >>

\* ------------------------------------------------------------------------
\* DataLoader.get_stroke_batches
\* ------------------------------------------------------------------------
\* the indices 0 .. batch_size-1 whatever the batch asked for
batch_indices_from_zero(idx, bs) == [n \in 1..bs |-> n - 1]

\* range(idx * batch_size, idx * batch_size + batch_size)
batch_indices(idx, bs) == [n \in 1..bs |-> idx * bs + n - 1]

get_stroke_batches ==
  \E idx \in 0..MaxSketches :
    LET indices == batch_indices(idx, batch_size)
    IN /\ lastCall' = "get_stroke_batches"
       /\ ret_alias' = 0
       /\ arg' = << idx >>
       /\ UNCHANGED << strokes, stroke_batch_queue, config, history, res >>
       /\ IF ~indices_in_range(indices)
          THEN /\ outcome' = "IndexError"
               /\ ret' = <<>>
               /\ executed' = {"_get_sketches_from_indices"}
               /\ sampled' = indices
               /\ cohort' = <<>>
               /\ built' = <<>>
          ELSE \E sks \in get_sketches_from_indices(indices) :
                 LET sketch_strokes == split_all(sks)
                     err == IF augmented_empty(indices) THEN "IndexError"
                            ELSE pad_stroke_batch_error(sketch_strokes, batch_size, max_seq_length)
                     batches == pad_stroke_batch(sketch_strokes, batch_size, max_seq_length)
                 IN /\ executed' = {"_get_sketches_from_indices", "split_sketch", "pad_stroke_batch"}
                    /\ sampled' = indices
                    /\ cohort' = sks
                    /\ IF err # "ok"
                       THEN /\ outcome' = err
                            /\ ret' = <<>>
                            /\ built' = <<>>
                       ELSE /\ outcome' = "ok"
                            /\ ret' = batches
                            /\ built' = batches

\* ------------------------------------------------------------------------
\* DataLoader.random_sample, DataLoader.random_scale called by a client
\* ------------------------------------------------------------------------
\* an array handed out as a view of the stored sketch row
np_view(row) == row

\* np.copy of the stored sketch row (1-based): the stored sketch the new
\* array shares memory with, 0 for none
np_copy(row) == 0

random_sample ==
  /\ lastCall' = "random_sample"
  /\ executed' = {}
  /\ sampled' = <<>>
  /\ cohort' = <<>>
  /\ built' = <<>>
  /\ arg' = <<>>
  /\ UNCHANGED << strokes, stroke_batch_queue, config, history, res >>
  /\ IF Len(strokes) = 0
     THEN outcome' = "IndexError" /\ ret' = <<>> /\ ret_alias' = 0
     ELSE \E i \in 1..Len(strokes) :
            outcome' = "ok" /\ ret' = strokes[i] /\ ret_alias' = np_copy(i)

\* random_scale(data) called with a stored sketch for data
random_scale_call ==
  \E i \in 1..Len(strokes), ux \in scale_draws, uy \in scale_draws :
    /\ lastCall' = "random_scale"
    /\ outcome' = "ok"
    /\ ret' = random_scale(strokes[i], ux, uy)
    /\ ret_alias' = np_copy(i)
    /\ executed' = {}
    /\ sampled' = <<>>
    /\ cohort' = <<>>
    /\ built' = <<>>
    /\ arg' = <<>>
    /\ UNCHANGED << strokes, stroke_batch_queue, config, history, res >>

\* ------------------------------------------------------------------------
\* DataLoader.normalize
\* ------------------------------------------------------------------------
\* the scale factors normalize is called with
NormalizeFactors == { 2 }

\* every stored offset divided by sf is a value of the fixed-point grid
divisible(sf) ==
  \A i \in 1..Len(strokes) : \A n \in 1..Len(strokes[i]) :
    strokes[i][n][1] % sf = 0 /\ strokes[i][n][2] % sf = 0

\* a normalize that also throws away the mini-batches built so far
normalize_and_flush(sf) ==
  /\ divisible(sf)
  /\ lastCall' = "normalize"
  /\ outcome' = "ok"
  /\ scale_factor' = sf
  /\ strokes' = [i \in 1..Len(strokes) |-> scale(strokes[i], sf)]
  /\ stroke_batch_queue' = <<>>
  /\ ret' = <<>>
  /\ ret_alias' = 0
  /\ executed' = {}
  /\ sampled' = <<>>
  /\ cohort' = <<>>
  /\ built' = <<>>
  /\ arg' = <<>>
  /\ UNCHANGED << batch_size, max_seq_length, limit, num_batches, sketches,
                  random_scale_factor, augment_stroke_prob, history, res >>

\* the body of normalize for the factor sf: self.scale_factor is set and
\* the offsets of every stored sketch are divided in place
normalize_to(sf) ==
  /\ divisible(sf)
  /\ lastCall' = "normalize"
  /\ outcome' = "ok"
  /\ scale_factor' = sf
  /\ strokes' = [i \in 1..Len(strokes) |-> scale(strokes[i], sf)]
  /\ ret' = <<>>
  /\ ret_alias' = 0
  /\ executed' = {}
  /\ sampled' = <<>>
  /\ cohort' = <<>>
  /\ built' = <<>>
  /\ UNCHANGED << stroke_batch_queue, batch_size, max_seq_length, limit, num_batches,
                  sketches, random_scale_factor, augment_stroke_prob, history,
                  res >>
  /\ arg' = <<>>

\* normalize(scale_factor) with the factor given
normalize == \E sf \in NormalizeFactors : normalize_to(sf)

\* ------------------------------------------------------------------------
\* The client writes into the array the last call returned
\* ------------------------------------------------------------------------
\* sample[:, 0:2] = 0
zeroed_sketch(sketch) == [n \in 1..Len(sketch) |-> << 0, 0, sketch[n][3] >>]

\* batch[1][:] = 0 on a (None, result, seq_len) tuple
zeroed_batch(batch) ==
  [batch EXCEPT !.result =
     [i \in 1..Len(@) |-> [t \in 1..Len(@[i]) |-> << 0, 0, 0, 0, 0 >>]]]

caller_writes ==
  /\ lastCall \in {"random_sample", "random_scale", "random_stroke_batch", "get_stroke_batches"}
  /\ outcome = "ok"
  /\ lastCall' = CASE lastCall \in {"random_sample", "random_scale"} -> "caller_writes_sample"
                   [] lastCall = "random_stroke_batch" -> "caller_writes_batch"
                   [] lastCall = "get_stroke_batches" -> "caller_writes_run"
  /\ ret' = CASE lastCall \in {"random_sample", "random_scale"} -> zeroed_sketch(ret)
              [] lastCall = "random_stroke_batch" -> zeroed_batch(ret)
              [] lastCall = "get_stroke_batches" ->
                   [jj \in 1..Len(ret) |-> zeroed_batch(ret[jj])]
  /\ strokes' = IF ret_alias = 0 THEN strokes
                ELSE [strokes EXCEPT ![ret_alias] = zeroed_sketch(@)]
  /\ arg' = <<>>
  /\ UNCHANGED << stroke_batch_queue, config, history, res, outcome, executed,
                  sampled, cohort, built, ret_alias >>

\* ------------------------------------------------------------------------
\* The legacy protocol: DataLoader.random_batch, DataLoader.get_batch
\* ------------------------------------------------------------------------
\* a legacy method without its raise: the batching code below it runs
legacy_body_without_raise(name) ==
  /\ lastCall' = name
  /\ outcome' = IF Len(strokes) < batch_size THEN "IndexError" ELSE "ok"
  /\ ret' = <<>>
  /\ ret_alias' = 0
  /\ executed' = {"_get_batch_from_indices", "random_scale", "pad_batch"}
  /\ sampled' = <<>>
  /\ cohort' = <<>>
  /\ built' = <<>>
  /\ arg' = <<>>
  /\ UNCHANGED << strokes, stroke_batch_queue, config, history, res >>

\* what a legacy method does before control leaves it: its first statement
\* raises, the statements after the raise never run
legacy_body(name) ==
  /\ lastCall' = name
  /\ outcome' = "NotImplementedError"
  /\ ret' = <<>>
  /\ ret_alias' = 0
  /\ executed' = {}
  /\ sampled' = <<>>
  /\ cohort' = <<>>
  /\ built' = <<>>
  /\ arg' = <<>>
  /\ UNCHANGED << strokes, stroke_batch_queue, config, history, res >>

random_batch == legacy_body("random_batch")

get_batch == \E idx \in {0 - 1, 0, 1} : legacy_body("get_batch")

\* ------------------------------------------------------------------------
\* The DataLoader as a state machine
\* ------------------------------------------------------------------------
Next ==
  \/ random_stroke_batch
  \/ get_stroke_batches
  \/ random_sample
  \/ random_batch
  \/ get_batch
  \/ normalize

Spec == Init /\ [][Next]_vars

\* ------------------------------------------------------------------------
\* The DataLoader with augmentation, and a client that writes into what it
\* was handed
\* ------------------------------------------------------------------------
\* a sketch whose pen-stroke is long enough for augment_strokes to merge a
\* point
AugSketches ==
  { << PenDownPoint, PenDownPoint, PenDownPoint, PenDownPoint, PenLiftPoint >> }

\* the corpora the augmenting DataLoader is built with: none, one or two
\* sketches
AugCorpora == SeqsUpTo(AugSketches, 2)

AugMaxSeqLength == 5

\* the two augmentations off (the defaults) or both on
AugSettings == { << 0, 0 >>, << 2 * Unit, (3 * Unit) \div 4 >> }

\* the DataLoader after construction with random_scale_factor and
\* augment_stroke_prob given
InitAug ==
  \E corpus \in AugCorpora, setting \in AugSettings :
    \E idx \in argsort(seq_len_of(raw_data(corpus, AugMaxSeqLength, 4 * Unit, 2))) :
      /\ stroke_batch_queue = <<>>
      /\ batch_size = 1
      /\ max_seq_length = AugMaxSeqLength
      /\ scale_factor = 2
      /\ limit = 4 * Unit
      /\ sketches = corpus
      /\ strokes = preprocess(corpus, AugMaxSeqLength, 4 * Unit, 2, idx)
      /\ num_batches = Len(raw_data(corpus, AugMaxSeqLength, 4 * Unit, 2))
      /\ random_scale_factor = setting[1]
      /\ augment_stroke_prob = setting[2]
      /\ lastCall = "__init__"
      /\ outcome = "ok"
      /\ ret = <<>>
      /\ executed = {"preprocess"}
      /\ cohort = <<>>
      /\ built = <<>>
      /\ run = <<>>
      /\ log = <<>>
      /\ runs = 0
      /\ calls = 0
      /\ sampled = <<>>
      /\ ret_alias = 0
      /\ arg = <<>>
      /\ res = <<>>

NextAug ==
  \/ random_stroke_batch
  \/ get_stroke_batches
  \/ random_sample
  \/ random_scale_call
  \/ random_batch
  \/ get_batch
  \/ normalize
  \/ caller_writes

SpecAug == InitAug /\ [][NextAug]_vars

\* ------------------------------------------------------------------------
\* The queue protocol
\* ------------------------------------------------------------------------
\* the log entry n continues the log before it: the first mini-batch ever
\* returned is index 0 of refill 1; after the last mini-batch of a run comes
\* index 0 of the next refill, after any other one the next index of its run
continues_log(n) ==
  IF n = 1
  THEN log[n][1] = 1 /\ log[n][2] = 0
  ELSE IF log[n - 1][2] = log[n - 1][3] - 1
       THEN log[n][1] = log[n - 1][1] + 1 /\ log[n][2] = 0
       ELSE /\ log[n][1] = log[n - 1][1]
            /\ log[n][2] = log[n - 1][2] + 1
            /\ log[n][3] = log[n - 1][3]

\* C1: when the stored corpus holds at least batch_size sketches, the
\* mini-batches random_stroke_batch has returned so far are whole runs one
\* after the other: inside a run the indices 0, 1, ..., k-1 in this order,
\* each once, and a later run starts only after index k-1 of the run before
\* it; the mini-batch a call returns is the one the run holds at that index.
ReturnedInWholeRuns ==
  Len(strokes) >= batch_size =>
    /\ \A n \in 1..Len(log) : log[n][2] < log[n][3] /\ continues_log(n)
    /\ (lastCall = "random_stroke_batch" /\ outcome = "ok") =>
         /\ log # <<>>
         /\ log[Len(log)][1] = runs
         /\ ret = run[log[Len(log)][2] + 1]

\* a run of at least two mini-batches has been returned whole and the
\* first mini-batch of the next run after it
SecondRunStarted ==
  /\ Len(strokes) >= batch_size
  /\ \E n \in 1..(Len(log) - 1) :
       /\ log[n][3] >= 2
       /\ log[n][2] = log[n][3] - 1
       /\ log[n + 1][1] = log[n][1] + 1

\* between calls the queue is the rest of the run enqueued last: the
\* mini-batches after the one returned last, in ascending order
queue_is_rest_of_run ==
  IF log = <<>>
  THEN stroke_batch_queue = <<>> /\ runs = 0
  ELSE LET last == log[Len(log)]
       IN /\ last[1] = runs
          /\ Len(stroke_batch_queue) = last[3] - 1 - last[2]
          /\ \A n \in 1..Len(stroke_batch_queue) :
               /\ stroke_batch_queue[n].tag = << runs, last[2] + n, last[3] >>
               /\ stroke_batch_queue[n].item = run[last[2] + n + 1]

\* a step that enqueues, or that samples a new cohort and builds its run, is
\* a random_stroke_batch call that found the queue empty
refill_step ==
  (runs' # runs \/ run' # run \/ Len(stroke_batch_queue') > Len(stroke_batch_queue)) =>
    (lastCall' = "random_stroke_batch" /\ stroke_batch_queue = <<>>)

\* C2: between calls the queue holds exactly the not yet returned
\* mini-batches j+1 .. k-1 of the run generated last, in ascending order,
\* and a cohort is sampled and enqueued only by a random_stroke_batch call
\* that finds the queue empty; the queue never mixes two runs.
QueueHoldsRestOfOneRun == [](queue_is_rest_of_run) /\ [][refill_step]_vars

\* two mini-batches of a run of three wait in the queue
TwoBatchesQueued ==
  /\ Len(stroke_batch_queue) = 2
  /\ stroke_batch_queue[1].tag[2] = 1
  /\ stroke_batch_queue[1].tag[3] = 3

\* ------------------------------------------------------------------------
\* The runs pad_stroke_batch builds
\* ------------------------------------------------------------------------
\* pad_stroke_batch has returned the run built of the cohort
run_built == lastCall = "pad_stroke_batch" /\ outcome = "ok"

\* the number of pen-strokes of sketch i of the cohort
num_strokes(i) == Len(split_sketch(cohort[i]))

\* the pen-stroke of sketch i that mini-batch jj (1-based) is built of
pen_stroke(i, jj) == split_sketch(cohort[i])[jj]

\* row i of mini-batch jj and its recorded length
row_of(jj, i) == built[jj].result[i]

len_of(jj, i) == built[jj].seq_len[i]

\* the positions 1 .. recorded length - 1 of row i of mini-batch jj, the
\* start token stripped, read as stroke-3: (dx, dy, p_up)
carried(jj, i) ==
  [t \in 1..(len_of(jj, i) - 1) |->
     << row_of(jj, i)[t + 1][1], row_of(jj, i)[t + 1][2], row_of(jj, i)[t + 1][4] >>]

\* what row i carries over the mini-batches its sketch reaches, in order
reassembled(i) ==
  LET F[n \in 0..num_strokes(i)] ==
        IF n = 0 THEN <<>> ELSE F[n - 1] \o carried(n, i)
  IN F[num_strokes(i)]

\* C3: for a cohort whose pen-strokes all fit max_seq_length, reading the
\* positions 1 .. recorded length - 1 of row i in the mini-batches
\* j = 0 .. (strokes of sketch i) - 1, in order, gives back the pen-strokes
\* of sketch i one by one and so the sketch: same dx and dy, p_up equal to
\* pen_lift and p_down equal to 1 - pen_lift at every point.
RunReassemblesCohort ==
  run_built =>
    \A i \in 1..batch_size :
      /\ \A jj \in 1..num_strokes(i) :
           /\ carried(jj, i) = pen_stroke(i, jj)
           /\ \A t \in 1..(len_of(jj, i) - 1) :
                row_of(jj, i)[t + 1][3] = Unit - pen_stroke(i, jj)[t][3]
      /\ reassembled(i) = cohort[i]

\* a run of at least two mini-batches in which a row carries two
\* pen-strokes, one of them of max_seq_length points
TwoStrokesReassembled ==
  /\ run_built
  /\ \E i \in 1..batch_size :
       /\ num_strokes(i) >= 2
       /\ \E jj \in 1..num_strokes(i) : Len(pen_stroke(i, jj)) = max_seq_length

\* every row of every mini-batch starts with the start token and has it
\* counted in its recorded length, the rows of absent pen-strokes included
EveryRowStartsWithToken ==
  run_built =>
    \A jj \in 1..Len(built) : \A i \in 1..batch_size :
      /\ row_of(jj, i)[1] = start_stroke_token
      /\ len_of(jj, i) = IF num_strokes(i) >= jj THEN Len(pen_stroke(i, jj)) + 1 ELSE 1

\* C4 (amended): in every mini-batch j of a run, not only j = 0, every row
\* whose sketch has a j-th pen-stroke holds the start token (0, 0, 1, 0, 0)
\* at position 0 and records the length l + 1 for a stroke of l points; a
\* row whose sketch has no j-th pen-stroke gets no start token: it holds the
\* end-of-sketch point (0, 0, 0, 0, 1) at position 0 and records length 0.
StrokeRowsStartWithToken ==
  run_built =>
    \A jj \in 1..Len(built) : \A i \in 1..batch_size :
      IF num_strokes(i) >= jj
      THEN /\ row_of(jj, i)[1] = start_stroke_token
           /\ len_of(jj, i) = Len(pen_stroke(i, jj)) + 1
      ELSE /\ row_of(jj, i)[1] = end_of_sketch_point
           /\ len_of(jj, i) = 0

\* a mini-batch after the first in which one row carries a pen-stroke and
\* another row has none
LaterBatchWithAbsentRow ==
  /\ run_built
  /\ \E jj \in 2..Len(built) : \E i, h \in 1..batch_size :
       num_strokes(i) >= jj /\ num_strokes(h) < jj

\* C5: the run has exactly k mini-batches, k the largest pen-stroke count
\* of the cohort; row i of mini-batch j carries the j-th pen-stroke of
\* sketch i when the sketch has more than j pen-strokes, and otherwise
\* carries nothing: all its positions are end-of-sketch points with zero
\* offsets.
RunHasMaxStrokeCountBatches ==
  run_built =>
    /\ \A i \in 1..batch_size : num_strokes(i) <= Len(built)
    /\ \E i \in 1..batch_size : num_strokes(i) = Len(built)
    /\ \A jj \in 1..Len(built) : \A i \in 1..batch_size :
         IF num_strokes(i) >= jj
         THEN /\ carried(jj, i) = pen_stroke(i, jj)
              /\ \E t \in 1..(max_seq_length + 1) : row_of(jj, i)[t] # end_of_sketch_point
         ELSE /\ \A t \in 1..(max_seq_length + 1) : row_of(jj, i)[t] = << 0, 0, 0, 0, Unit >>
              /\ carried(jj, i) = <<>>

\* the cohort of the scenario: a sketch of three pen-strokes first, a sketch
\* of one pen-stroke second, a run of three mini-batches
ThreeAndOneStrokes ==
  /\ run_built
  /\ batch_size = 2
  /\ num_strokes(1) = 3
  /\ num_strokes(2) = 1
  /\ Len(built) = 3

\* C6: in a row that carries the j-th pen-stroke of sketch i, every position
\* after the start token and the points of the stroke is padding: the
\* end-of-sketch point when the stroke is the last of the sketch, the
\* end-of-stroke point otherwise, never both in one row.
PaddingFollowsStrokePosition ==
  run_built =>
    \A jj \in 1..Len(built) : \A i \in 1..batch_size :
      num_strokes(i) >= jj =>
        \A t \in (Len(pen_stroke(i, jj)) + 2)..(max_seq_length + 1) :
          row_of(jj, i)[t] = IF jj = num_strokes(i)
                             THEN << 0, 0, 0, 0, Unit >>
                             ELSE << 0, 0, 0, Unit, 0 >>

\* a padded row of a pen-stroke that is not the last of its sketch and a
\* padded row of one that is
BothPaddingsBuilt ==
  /\ run_built
  /\ \E jj \in 1..Len(built) : \E i \in 1..batch_size :
       /\ num_strokes(i) > jj
       /\ Len(pen_stroke(i, jj)) < max_seq_length
  /\ \E jj \in 1..Len(built) : \E i \in 1..batch_size :
       /\ num_strokes(i) = jj
       /\ Len(pen_stroke(i, jj)) < max_seq_length

\* C7: at every position of every row of every mini-batch of a run the three
\* pen channels p_down + p_up + p_end add up to 1: start tokens, stroke
\* points, padding and the rows of absent pen-strokes.
PenChannelsSumToOne ==
  run_built =>
    \A jj \in 1..Len(built) : \A i \in 1..batch_size :
      \A t \in 1..(max_seq_length + 1) :
        row_of(jj, i)[t][3] + row_of(jj, i)[t][4] + row_of(jj, i)[t][5] = Unit

\* a run with a pen-lift point, a padded row and the row of an absent
\* pen-stroke
AllKindsOfPointsBuilt ==
  /\ run_built
  /\ \E jj \in 1..Len(built) : \E i, h \in 1..batch_size :
       /\ num_strokes(h) < jj
       /\ num_strokes(i) >= jj
       /\ Len(pen_stroke(i, jj)) < max_seq_length
       /\ \E t \in 1..Len(pen_stroke(i, jj)) : pen_stroke(i, jj)[t][3] = Unit

\* ------------------------------------------------------------------------
\* The legacy protocol
\* ------------------------------------------------------------------------
\* C8: in every state a call of random_batch or get_batch, whatever its
\* argument, ends with the not-supported error and runs no batching code:
\* no helper runs (neither _get_batch_from_indices nor pad_batch), nothing
\* is returned, and the queue and the stored corpus stay as they were.
LegacyCallsOnlyRaise ==
  [][ lastCall' \in {"random_batch", "get_batch"} =>
        /\ outcome' = "NotImplementedError"
        /\ executed' = {}
        /\ ret' = <<>>
        /\ stroke_batch_queue' = stroke_batch_queue
        /\ strokes' = strokes ]_vars

\* a legacy method was called while mini-batches were queued
LegacyCalledOnFilledQueue ==
  /\ lastCall \in {"random_batch", "get_batch"}
  /\ stroke_batch_queue # <<>>
  /\ Len(strokes) >= batch_size

\* ------------------------------------------------------------------------
\* preprocess
\* ------------------------------------------------------------------------
\* the constructor has run
constructed == lastCall = "__init__"

\* the retained sketches, clamped and scaled, in the order of the input
kept_sketches == raw_data(sketches, max_seq_length, limit, scale_factor)

\* the index orders 1..n -> 1..n that are permutations
permutations(n) ==
  { idx \in [1..n -> 1..n] : \A a, b \in 1..n : a # b => idx[a] # idx[b] }

\* C9: after preprocess every sketch of the stored corpus has a maximum
\* pen-stroke length, as split_sketch computes it on the stored sketch, of
\* at most max_seq_length.
StoredStrokesFit ==
  constructed =>
    \A i \in 1..Len(strokes) : get_max_stroke_len(strokes[i]) <= max_seq_length

\* the stored corpus is the retained sketches sorted ascending by point
\* count, sketches of equal point count in their input order
StoredCorpusStablySorted ==
  constructed =>
    \E idx \in permutations(Len(kept_sketches)) :
      /\ strokes = [i \in 1..Len(kept_sketches) |-> kept_sketches[idx[i]]]
      /\ \A a, b \in 1..Len(kept_sketches) :
           a < b =>
             \/ Len(kept_sketches[idx[a]]) < Len(kept_sketches[idx[b]])
             \/ Len(kept_sketches[idx[a]]) = Len(kept_sketches[idx[b]]) /\ idx[a] < idx[b]

\* C10 (amended): after preprocess the stored corpus is a permutation of the
\* retained sketches, sorted ascending by total point count; the order of
\* sketches of equal point count is any order.
StoredCorpusSorted ==
  constructed =>
    /\ \E idx \in permutations(Len(kept_sketches)) :
         strokes = [i \in 1..Len(kept_sketches) |-> kept_sketches[idx[i]]]
    /\ \A a \in 1..(Len(strokes) - 1) : Len(strokes[a]) <= Len(strokes[a + 1])

\* preprocess stored two sketches that came longer one first
LongerSketchMovedBack ==
  /\ constructed
  /\ Len(strokes) = 2
  /\ Len(kept_sketches) = 2
  /\ Len(kept_sketches[1]) > Len(kept_sketches[2])
  /\ strokes[1] = kept_sketches[2]

\* ------------------------------------------------------------------------
\* The stored corpus
\* ------------------------------------------------------------------------
\* C11: no call of random_sample, random_stroke_batch, get_stroke_batches,
\* random_scale, random_batch or get_batch changes the stored corpus, with
\* augmentation and random scaling on or off, and neither does a client that
\* writes into the sample or the mini-batches it was handed: a step that
\* changes the stored corpus is a call of normalize.
CorpusChangedByNormalizeOnly ==
  [][strokes' # strokes => lastCall' = "normalize"]_vars

\* with both augmentations on, a client has written into the sample that
\* random_sample handed out, after a run was built of an augmented cohort
ClientWroteIntoSample ==
  /\ lastCall = "caller_writes_sample"
  /\ random_scale_factor > 0
  /\ augment_stroke_prob > 0
  /\ runs > 0
  /\ strokes # <<>>
  /\ ret = zeroed_sketch(strokes[1])
  /\ ret # strokes[1]

\* ------------------------------------------------------------------------
\* The cohort of a refill
\* ------------------------------------------------------------------------
\* the last call was a random_stroke_batch that found the queue empty and
\* sampled a cohort
refill_attempted ==
  lastCall = "random_stroke_batch" /\ "_get_sketches_from_indices" \in executed

\* the cohort of a refill has batch_size rows whenever the stored corpus is
\* not empty
RefillCohortHasBatchSizeRows ==
  (refill_attempted /\ strokes # <<>>) => Len(cohort) = batch_size

\* C12: the cohort random_stroke_batch samples on a refill is drawn without
\* replacement: it has min(batch_size, n) rows for a stored corpus of n
\* sketches, the rows are the sketches at pairwise different stored
\* positions, and when the corpus holds fewer than batch_size sketches the
\* call ends with an error instead of a cohort of batch_size rows.
RefillCohortWithoutReplacement ==
  refill_attempted =>
    /\ Len(sampled) = Min2(batch_size, Len(strokes))
    /\ Len(cohort) = Len(sampled)
    /\ \A a, b \in 1..Len(sampled) : a # b => sampled[a] # sampled[b]
    /\ \A a \in 1..Len(sampled) :
         /\ sampled[a] \in 0..(Len(strokes) - 1)
         /\ cohort[a] = strokes[sampled[a] + 1]
    /\ Len(strokes) < batch_size => outcome # "ok"

\* a refill has sampled both sketches of a corpus of two, the later one
\* first, and built the run
TwoPositionsSampled ==
  /\ refill_attempted
  /\ outcome = "ok"
  /\ batch_size = 2
  /\ sampled = << 1, 0 >>
  /\ cohort = << strokes[2], strokes[1] >>

\* ------------------------------------------------------------------------
\* get_stroke_batches
\* ------------------------------------------------------------------------
\* the number of pen-strokes of a stored sketch: its maximal runs of points
\* up to a pen lift (every stored sketch of the DataLoader checked here
\* ends with a pen lift or has none)
stroke_count(sketch) ==
  IF \A n \in 1..Len(sketch) : sketch[n][3] # Unit THEN 1
  ELSE Cardinality({ n \in 1..Len(sketch) : sketch[n][3] = Unit })

\* C13: get_stroke_batches(index) neither reads nor changes the queue, and
\* leaves what random_stroke_batch returns next and when it refills as they
\* were; a call that returns builds its cohort of the stored sketches at the
\* positions index*batch_size .. index*batch_size+batch_size-1 in this
\* order and returns the whole run, one mini-batch per pen-stroke of the
\* sketch with the most pen-strokes.
SliceRunBesideTheQueue ==
  [][lastCall' = "get_stroke_batches" =>
       /\ stroke_batch_queue' = stroke_batch_queue
       /\ history' = history
       /\ strokes' = strokes
       /\ outcome' = "ok" =>
            /\ arg'[1] * batch_size + batch_size <= Len(strokes)
            /\ Len(cohort') = batch_size
            /\ \A n \in 1..batch_size :
                 cohort'[n] = strokes[arg'[1] * batch_size + n]
            /\ ret' = built'
            /\ Len(ret') = MaxOf([n \in 1..batch_size |-> stroke_count(cohort'[n])])
            /\ \A jj \in 1..Len(ret') : Len(ret'[jj].result) = batch_size]_vars

\* get_stroke_batches(1) has returned the run of the second stored sketch
\* while mini-batches of a run of random_stroke_batch wait in the queue
SecondSliceBuiltBesideQueue ==
  /\ lastCall = "get_stroke_batches"
  /\ outcome = "ok"
  /\ arg = << 1 >>
  /\ batch_size = 1
  /\ Len(strokes) = 2
  /\ strokes[1] # strokes[2]
  /\ stroke_batch_queue # <<>>

\* ------------------------------------------------------------------------
\* augment_strokes
\* ------------------------------------------------------------------------
augmented == lastCall = "augment_strokes"

\* point i of the input of augment_strokes is a pen lift
lift_in(i) == arg[1][i][3] = Unit

\* point i is the first point of its pen-stroke
first_of_stroke(i) == i = 1 \/ lift_in(i - 1)

\* point i is the second point of its pen-stroke
second_of_stroke(i) == i > 1 /\ ~lift_in(i - 1) /\ first_of_stroke(i - 1)

\* point i of the input was appended to the output
kept(i) == \E k \in 1..Len(res.emitted) : res.emitted[k] = i

\* C14: for every stroke-3 sequence with pen_lift 0 or 1, every prob and
\* every outcome of the draws, augment_strokes emits the first two points
\* and the pen-lift point of every pen-stroke; a point it merges is no pen
\* lift and goes into an emitted point that is no pen lift and lies earlier
\* in the same pen-stroke, so no merge crosses a pen lift; the output has as
\* many pen-lift points as the input.
AugmentKeepsStrokeEnds ==
  augmented =>
    /\ Len(res.emitted) = Len(res.result)
    /\ Len(res.into) = Len(arg[1])
    /\ \A k \in 1..Len(res.result) : res.result[k][3] = arg[1][res.emitted[k]][3]
    /\ \A i \in 1..Len(arg[1]) :
         /\ (first_of_stroke(i) \/ second_of_stroke(i) \/ lift_in(i)) => kept(i)
         /\ kept(i) => res.emitted[res.into[i]] = i
         /\ ~kept(i) =>
              /\ ~lift_in(i)
              /\ res.result[res.into[i]][3] = 0
              /\ res.emitted[res.into[i]] < i
              /\ \A n \in res.emitted[res.into[i]]..i : ~lift_in(n)
    /\ Cardinality({ k \in 1..Len(res.result) : res.result[k][3] = Unit })
         = Cardinality({ i \in 1..Len(arg[1]) : lift_in(i) })

\* the fourth point of a pen-stroke of five was merged into the third and
\* the pen-lift point after it was emitted
FourthPointMerged ==
  /\ augmented
  /\ Len(arg[1]) = 5
  /\ lift_in(5)
  /\ ~kept(4)
  /\ res.into[4] = 3
  /\ Len(res.result) = 4

\* the sum of column c over the first k points of seq
SumTo(seq, c, k) ==
  LET S[n \in 0..k] == IF n = 0 THEN 0 ELSE S[n - 1] + seq[n][c]
  IN S[k]

\* C17: augment_strokes loses no offset: for every input and every outcome
\* of the draws the sums of dx and of dy over the output are those over the
\* input, the pen-lift point of every pen-stroke has the same cumulative
\* position in the output as in the input, and the input array is not
\* written to.
AugmentKeepsPositions ==
  augmented =>
    /\ \A c \in 1..2 :
         SumTo(res.result, c, Len(res.result)) = SumTo(arg[1], c, Len(arg[1]))
    /\ \A i \in 1..Len(arg[1]) : \A c \in 1..2 :
         lift_in(i) =>
           /\ res.into[i] \in 1..Len(res.result)
           /\ SumTo(res.result, c, res.into[i]) = SumTo(arg[1], c, i)
    /\ res.data = arg[1]

\* the fourth and the fifth point of a pen-stroke were merged into its third
\* point, which holds the sum of the three offsets
TwoPointsMerged ==
  /\ augmented
  /\ Len(arg[1]) >= 5
  /\ ~kept(4)
  /\ ~kept(5)
  /\ res.into[4] = 3
  /\ res.into[5] = 3
  /\ res.result[3] = << 3 * PenDownPoint[1], 3 * PenDownPoint[2], 0 >>

\* ------------------------------------------------------------------------
\* The stroke-5 round trip
\* ------------------------------------------------------------------------
\* C15: for every stroke-3 sequence s with pen_lift 0 or 1 and every length
\* 0 <= len(s) <= max_len, to_normal_strokes(to_big_strokes(s, max_len)) is
\* s, with the same number of rows.
RoundTripIsIdentity ==
  lastCall = "to_normal_strokes" => (Len(res) = Len(arg[1]) /\ res = arg[1])

\* ------------------------------------------------------------------------
\* split_sketch
\* ------------------------------------------------------------------------
\* the pen-lift points of the sketch split_sketch was called with
lifts_of_arg == { n \in 1..Len(arg[1]) : arg[1][n][3] = Unit }

\* C16: for every non-empty stroke-3 sketch split_sketch splits after every
\* pen-lift point: every returned pen-stroke is non-empty and has no pen
\* lift but at its last position, and there are as many pen-strokes as
\* pen-lift points, plus one when points follow the last pen lift.
SplitAfterEveryLift ==
  (lastCall = "split_sketch" /\ arg[1] # <<>>) =>
    /\ \A p \in 1..Len(res) :
         /\ res[p] # <<>>
         /\ \A n \in 1..(Len(res[p]) - 1) : res[p][n][3] # Unit
    /\ Len(res) = Cardinality(lifts_of_arg)
                    + (IF arg[1][Len(arg[1])][3] = Unit THEN 0 ELSE 1)

\* ------------------------------------------------------------------------
\* A refill that fails
\* ------------------------------------------------------------------------
\* the cohort cannot be made into a run: it has fewer than batch_size
\* sketches or one of its pen-strokes is longer than max_seq_length
unfit(sks) ==
  \/ Len(sks) < batch_size
  \/ \E n \in 1..Len(sks) : get_max_stroke_len(sks[n]) > max_seq_length

\* C18: when random_stroke_batch finds the queue empty and the cohort it
\* samples has a pen-stroke longer than max_seq_length or fewer than
\* batch_size sketches, the call ends with the error and returns nothing, no
\* mini-batch of the failed run is enqueued, and the queue is still empty,
\* so that the next call samples a new cohort.
FailedRefillLeavesQueueEmpty ==
  [][(lastCall' = "random_stroke_batch" /\ queue_empty(stroke_batch_queue) /\ unfit(cohort')) =>
       /\ outcome' \in {"AssertionError", "IndexError", "ValueError"}
       /\ ret' = <<>>
       /\ stroke_batch_queue' = <<>>
       /\ log' = log
       /\ run' = run
       /\ runs' = runs]_vars

\* after a run was returned whole, a refill has failed on a cohort of
\* batch_size sketches with a pen-stroke longer than max_seq_length
RefillFailedOnLongStroke ==
  /\ refill_attempted
  /\ outcome = "AssertionError"
  /\ Len(cohort) = batch_size
  /\ unfit(cohort)
  /\ log # <<>>
  /\ stroke_batch_queue = <<>>

\* ------------------------------------------------------------------------
\* normalize and the queue
\* ------------------------------------------------------------------------
\* a call of normalize changes the stored offsets and scale_factor only
normalize_step ==
  lastCall' = "normalize" =>
    /\ stroke_batch_queue' = stroke_batch_queue
    /\ history' = history
    /\ << batch_size', max_seq_length', limit', num_batches' >>
         = << batch_size, max_seq_length, limit, num_batches >>
    /\ Len(strokes') = Len(strokes)
    /\ \A i \in 1..Len(strokes) :
         /\ Len(strokes'[i]) = Len(strokes[i])
         /\ \A n \in 1..Len(strokes[i]) :
              /\ strokes'[i][n][1] * scale_factor' = strokes[i][n][1]
              /\ strokes'[i][n][2] * scale_factor' = strokes[i][n][2]
              /\ strokes'[i][n][3] = strokes[i][n][3]

\* a random_stroke_batch call that finds mini-batches queued returns the one
\* at the head as it was queued and samples nothing
queued_step ==
  (lastCall' = "random_stroke_batch" /\ stroke_batch_queue # <<>>) =>
    /\ ret' = stroke_batch_queue[1].item
    /\ stroke_batch_queue' = Tail(stroke_batch_queue)
    /\ run' = run
    /\ sampled' = <<>>

\* a random_stroke_batch call that finds the queue empty takes its cohort
\* from the corpus as it is stored at the call
sampling_step ==
  (lastCall' = "random_stroke_batch" /\ stroke_batch_queue = <<>>) =>
    /\ Len(cohort') = Len(sampled')
    /\ \A a \in 1..Len(sampled') :
         /\ sampled'[a] < Len(strokes)
         /\ cohort'[a] = strokes[sampled'[a] + 1]

\* C19: normalize changes only the stored corpus and scale_factor and
\* leaves the queue as it is; the mini-batches of a run that were queued
\* when normalize was called are returned by the following
\* random_stroke_batch calls as they were built, with the offsets of before
\* the normalization, and only a refill reads the normalized corpus.
NormalizeLeavesQueuedBatches ==
  [][normalize_step /\ queued_step /\ sampling_step]_vars

\* a mini-batch built before normalize was called has been returned from the
\* queue after it: its first point holds twice the offsets stored now
BatchOfBeforeNormalizeReturned ==
  /\ lastCall = "random_stroke_batch"
  /\ outcome = "ok"
  /\ executed = {}
  /\ batch_size = 1
  /\ Len(strokes) = 1
  /\ log[Len(log)][2] > 0
  /\ run[1].result[1][2][1] = 2 * strokes[1][1][1]
  /\ ret.result[1][2][1] = 2 * strokes[1][log[Len(log)][2] + 1][1]

\* ------------------------------------------------------------------------
\* The end flags of a row
\* ------------------------------------------------------------------------
\* C20: for every pen-stroke length l with 0 <= l <= max_seq_length the row
\* that carries the last pen-stroke of a sketch has, after the points of the
\* stroke, at least one point with the end-of-sketch channel set, and the
\* row that carries an earlier pen-stroke at least one end-of-stroke padding
\* point, also for l = max_seq_length after the shift for the start token.
EveryStrokeRowHasEndFlag ==
  run_built =>
    \A jj \in 1..Len(built) : \A i \in 1..batch_size :
      num_strokes(i) >= jj =>
        \E t \in (Len(pen_stroke(i, jj)) + 2)..(max_seq_length + 1) :
          row_of(jj, i)[t] = IF jj = num_strokes(i)
                             THEN << 0, 0, 0, 0, Unit >>
                             ELSE << 0, 0, 0, Unit, 0 >>

====
